---- MODULE Spec2Model ----
(***************************************************************************)
(* Enrollment and progress lifecycle of the e-learning application         *)
(* (final_project/elearning_app): assignment weight validation, course     *)
(* progress, final grades, enrollment status transitions and the           *)
(* notifications the post_save signal handlers create.                     *)
(*                                                                         *)
(* Database tables are sequences of rows; the primary key of a row is its  *)
(* index.  Python floats are modelled by integers:                         *)
(*   - weights and grades are whole percents;                              *)
(*   - a progress value is kept in hundredths of a percent (round(x, 2));  *)
(*   - a final grade is kept in hundredths of a grade point, so that       *)
(*     (weight / 100) * grade is the integer weight * grade.               *)
(* NULL (-1) stands for None / SQL NULL in nullable numeric columns, and   *)
(* NoPk (0) for the pk of an instance that has not been saved yet.         *)
(***************************************************************************)
EXTENDS Integers, Sequences, FiniteSets, Bags, TLC

NULL == -1
NoPk == 0

(***************************************************************************)
(* Bounds of the model.                                                    *)
(***************************************************************************)
MaxAssignments == 3
MaxLessons == 2
MaxCourseAssignments == 2
MaxSubmissions == 2
MaxNotifications == 5
MaxClock == 1
MaxEnrollments == 2
MaxReviews == 3

(***************************************************************************)
(* Users, courses and modules.  Course content is grouped in modules; a    *)
(* course is taught by one teacher.                                        *)
(***************************************************************************)
STUDENT == "Student"
TEACHER == "Teacher"

Students == {"s1", "s2"}
Teachers == {"t1", "t2"}
Users == Students \cup Teachers

\* mutant of role: every user is a student
role_always_student(user) == STUDENT

role(user) == IF user \in Students THEN STUDENT ELSE TEACHER

Courses == {"c1", "c2"}
\* the modules that exist from the start, and those a teacher adds later
Modules == {"m1", "m2", "m3"}
NewModules == {"m4", "m5"}

taught_by(c) == IF c = "c1" THEN "t1" ELSE "t2"
module_course(m) == IF m \in {"m1", "m2", "m4"} THEN "c1" ELSE "c2"

\* Course.is_published: c1 has been published, c2 has not
is_published(c) == c = "c1"

ACTIVE == "Active"
COMPLETED == "Completed"
CANCELED == "Canceled"
REMOVED == "Removed"
EnrollmentStatus == {ACTIVE, COMPLETED, CANCELED, REMOVED}

\* inputs of the requests
WeightChoices == {0, 40, 50, 60, 100}
GradeChoices == {0, 90}

VARIABLES
    assignments,      \* Assignment rows: [module, weight, deadline]
    lessons,          \* Lesson rows: [module]
    lesson_progress,  \* LessonProgress rows: [student, lesson, completed]
    submissions,      \* AssignmentSubmission rows: [assignment, student, grade]
    enrollments,      \* Enrollment rows
    notifications,    \* bag of Notification rows: [user, related_course, content]
    user_blocks,      \* UserBlock rows: set of <<blocked_by, blocked_user>>
    clock,            \* datetime.now()
    error,            \* the exception the last request ended with
    modules,          \* Module rows: the set of the modules that exist
    in_flight,        \* requests between their read and their write
    course_reviews    \* CourseReview rows: [student, course]

vars == <<assignments, lessons, lesson_progress, submissions, enrollments,
          notifications, user_blocks, clock, error, modules,
          in_flight, course_reviews>>

NoError == [type |-> "ok", max_weight |-> NULL]
ValidationError(max) == [type |-> "ValidationError", max_weight |-> max]
PermissionDenied == [type |-> "PermissionDenied", max_weight |-> NULL]
AttributeError == [type |-> "AttributeError", max_weight |-> NULL]

(***************************************************************************)
(* Assignment weights (models.py, Assignment.clean and Assignment.save).   *)
(***************************************************************************)
RECURSIVE SumWeights(_, _)
SumWeights(rows, pks) ==
    IF pks = {} THEN 0
    ELSE LET a == CHOOSE x \in pks : TRUE
         IN  rows[a].weight + SumWeights(rows, pks \ {a})

\* Assignment.objects.filter(module__course=course).exclude(pk=self.pk)
existing_assignments(pk, course) ==
    {a \in DOMAIN assignments :
        module_course(assignments[a].module) = course /\ a # pk}

current_lesson_weight(pk, course) ==
    SumWeights(assignments, existing_assignments(pk, course))

\* mutants of Assignment_clean
Assignment_clean_own_weight_only(pk, module, weight) ==
    IF weight > 100 THEN ValidationError(100) ELSE NoError

Assignment_clean_counts_itself(pk, module, weight) ==
    LET sum == current_lesson_weight(NoPk, module_course(module))
    IN  IF sum + weight > 100 THEN ValidationError(100 - sum) ELSE NoError

\* the ValidationError clean() raises, or NoError
Assignment_clean(pk, module, weight) ==
    LET sum == current_lesson_weight(pk, module_course(module))
    IN  IF sum + weight > 100 THEN ValidationError(100 - sum) ELSE NoError

\* views.assignment_create / api.AssignmentListCreateView.perform_create:
\* a new Assignment goes through save(), which runs clean() first
assignment_create(m, w) ==
    /\ m \in modules
    /\ LET e == Assignment_clean(NoPk, m, w)
       IN  /\ error' = e
           /\ assignments' = IF e = NoError
                             THEN Append(assignments,
                                         [module |-> m, weight |-> w,
                                          deadline |-> NULL])
                             ELSE assignments
    /\ UNCHANGED <<lessons, lesson_progress, submissions, enrollments,
                   notifications, user_blocks, clock, modules,
                   in_flight, course_reviews>>

\* views.assignment_edit / api.AssignmentDetailView: the weight of an
\* existing Assignment is changed and saved
assignment_edit(pk, w) ==
    /\ pk \in DOMAIN assignments
    /\ LET e == Assignment_clean(pk, assignments[pk].module, w)
       IN  /\ error' = e
           /\ assignments' = IF e = NoError
                             THEN [assignments EXCEPT ![pk].weight = w]
                             ELSE assignments
    /\ UNCHANGED <<lessons, lesson_progress, submissions, enrollments,
                   notifications, user_blocks, clock, modules,
                   in_flight, course_reviews>>

(***************************************************************************)
(* Queries of models.py.  The tables a signal handler reads after the save *)
(* that fired it are passed as arguments.                                  *)
(***************************************************************************)
lesson_course(l) == module_course(lessons[l].module)
assignment_course(a) == module_course(assignments[a].module)

\* Course.get_all_lessons / Course.get_all_assignments
get_all_lessons(course) == {l \in DOMAIN lessons : lesson_course(l) = course}
get_all_assignments(course) ==
    {a \in DOMAIN assignments : assignment_course(a) = course}

\* User.get_lessons_completed: the join of Lesson with LessonProgress yields
\* one row for each completed LessonProgress row of the user in the course
get_lessons_completed(lp, user, course) ==
    {p \in DOMAIN lp : /\ lp[p].student = user
                       /\ lp[p].completed
                       /\ lesson_course(lp[p].lesson) = course}

\* User.get_assignments_submitted: the AssignmentSubmission rows of the user
\* in the course
get_assignments_submitted(subs, user, course) ==
    {x \in DOMAIN subs : /\ assignment_course(subs[x].assignment) = course
                         /\ subs[x].student = user}

\* User.get_enrollment and student.enrollments.filter(course=course).first():
\* the pk of the first Enrollment row of the user in the course, or NoPk
get_enrollment(rows, user, course) ==
    LET found == {e \in DOMAIN rows :
                     rows[e].student = user /\ rows[e].course = course}
    IN  IF found = {} THEN NoPk
        ELSE CHOOSE e \in found : \A f \in found : e <= f

\* round((completed_items / total_items) * 100, 2) in hundredths of a
\* percent; Python rounds a tie to the even neighbour
round_percent(completed_items, total_items) ==
    LET n == 10000 * completed_items
        q == n \div total_items
        r == n % total_items
    IN  IF 2 * r < total_items THEN q
        ELSE IF 2 * r > total_items THEN q + 1
        ELSE IF q % 2 = 0 THEN q ELSE q + 1

\* mutant of get_user_progress: the items left instead of the items done
get_user_progress_of_total(lp, subs, course, user) ==
    LET total_items == Cardinality(get_all_lessons(course))
                       + Cardinality(get_all_assignments(course))
        completed_items ==
            Cardinality(get_lessons_completed(lp, user, course))
            + Cardinality(get_assignments_submitted(subs, user, course))
    IN  IF total_items = 0 THEN 0
        ELSE round_percent(total_items - completed_items, total_items)

\* Course.get_user_progress, in hundredths of a percent
get_user_progress(lp, subs, course, user) ==
    LET all_lessons_count == Cardinality(get_all_lessons(course))
        completed_lessons_count ==
            Cardinality(get_lessons_completed(lp, user, course))
        all_assignments_count == Cardinality(get_all_assignments(course))
        submitted_assignments_count ==
            Cardinality(get_assignments_submitted(subs, user, course))
        total_items == all_lessons_count + all_assignments_count
        completed_items == completed_lessons_count + submitted_assignments_count
    IN  IF total_items = 0 THEN 0
        ELSE round_percent(completed_items, total_items)

FullProgress == 10000

RECURSIVE SumGrades(_, _)
SumGrades(subs, pks) ==
    IF pks = {} THEN 0
    ELSE LET x == CHOOSE y \in pks : TRUE
         IN  assignments[subs[x].assignment].weight * subs[x].grade
             + SumGrades(subs, pks \ {x})

\* User.get_final_grade, in hundredths of a grade point; NULL for None
get_final_grade(subs, user, course) ==
    LET submitted == get_assignments_submitted(subs, user, course)
        all == get_all_assignments(course)
    IN  IF \/ Cardinality(all) # Cardinality(submitted)
           \/ \E x \in submitted : subs[x].grade = NULL
        THEN NULL
        ELSE SumGrades(subs, submitted)

\* Python truth value of a float or None
truthy(x) == x # NULL /\ x # 0

(***************************************************************************)
(* Notifications.                                                          *)
(***************************************************************************)
Notification(user, course, content) ==
    [user |-> user, related_course |-> course, content |-> content]

create_notification(notes, user, course, content) ==
    notes (+) SetToBag({Notification(user, course, content)})

(***************************************************************************)
(* signals.py.  A handler maps the tables it writes to their new values:   *)
(* [enr |-> Enrollment rows, notes |-> notifications, err |-> exception].  *)
(***************************************************************************)
Outcome(enr, notes, err) == [enr |-> enr, notes |-> notes, err |-> err]

\* mutant of enrollment_notification: the teacher is notified of every save
enrollment_notification_on_every_save(enr, pk, created, notes) ==
    LET instance == enr[pk]
        told == create_notification(notes, taught_by(instance.course),
                                    instance.course, "enrolled")
    IN  IF created
        THEN Outcome(enr, told, NoError)
        ELSE IF instance.status = COMPLETED /\ instance.completed_on = NULL
        THEN Outcome([enr EXCEPT ![pk].completed_on = clock], told, NoError)
        ELSE IF instance.status = CANCELED /\ instance.canceled_on = NULL
        THEN Outcome([enr EXCEPT ![pk].canceled_on = clock], told, NoError)
        ELSE IF instance.status = REMOVED /\ instance.removed_on = NULL
        THEN Outcome([enr EXCEPT ![pk].removed_on = clock], told, NoError)
        ELSE Outcome(enr, told, NoError)

\* mutant of enrollment_notification: canceled_on is set by every save of a
\* Canceled enrollment
enrollment_notification_stamps_every_cancel(enr, pk, created, notes) ==
    LET instance == enr[pk]
    IN  IF created
        THEN Outcome(enr,
                     create_notification(notes, taught_by(instance.course),
                                         instance.course, "enrolled"),
                     NoError)
        ELSE IF instance.status = COMPLETED /\ instance.completed_on = NULL
        THEN Outcome([enr EXCEPT ![pk].completed_on = clock], notes, NoError)
        ELSE IF instance.status = CANCELED
        THEN Outcome([enr EXCEPT ![pk].canceled_on = clock], notes, NoError)
        ELSE IF instance.status = REMOVED /\ instance.removed_on = NULL
        THEN Outcome([enr EXCEPT ![pk].removed_on = clock], notes, NoError)
        ELSE Outcome(enr, notes, NoError)

\* post_save of Enrollment; the save() inside the handler sends post_save
\* again
RECURSIVE enrollment_notification(_, _, _, _)
enrollment_notification(enr, pk, created, notes) ==
    LET instance == enr[pk]
    IN  IF created
        THEN Outcome(enr,
                     create_notification(notes, taught_by(instance.course),
                                         instance.course, "enrolled"),
                     NoError)
        ELSE IF instance.status = COMPLETED /\ instance.completed_on = NULL
        THEN enrollment_notification([enr EXCEPT ![pk].completed_on = clock],
                                     pk, FALSE, notes)
        ELSE IF instance.status = CANCELED /\ instance.canceled_on = NULL
        THEN enrollment_notification([enr EXCEPT ![pk].canceled_on = clock],
                                     pk, FALSE, notes)
        ELSE IF instance.status = REMOVED /\ instance.removed_on = NULL
        THEN enrollment_notification([enr EXCEPT ![pk].removed_on = clock],
                                     pk, FALSE, notes)
        ELSE Outcome(enr, notes, NoError)

\* mutant of enrollment_nested_saves: the handler saves whenever the status
\* is not Active, whether the timestamp is set or not
enrollment_nested_saves_unguarded(enr, pk, created) ==
    IF created THEN 0
    ELSE IF enr[pk].status \in {COMPLETED, CANCELED, REMOVED} THEN 1
    ELSE 0

\* the number of instance.save() calls made inside enrollment_notification
\* and the handler runs those saves start, for one save of the row pk
RECURSIVE enrollment_nested_saves(_, _, _)
enrollment_nested_saves(enr, pk, created) ==
    LET instance == enr[pk]
    IN  IF created
        THEN 0
        ELSE IF instance.status = COMPLETED /\ instance.completed_on = NULL
        THEN 1 + enrollment_nested_saves(
                     [enr EXCEPT ![pk].completed_on = clock], pk, FALSE)
        ELSE IF instance.status = CANCELED /\ instance.canceled_on = NULL
        THEN 1 + enrollment_nested_saves(
                     [enr EXCEPT ![pk].canceled_on = clock], pk, FALSE)
        ELSE IF instance.status = REMOVED /\ instance.removed_on = NULL
        THEN 1 + enrollment_nested_saves(
                     [enr EXCEPT ![pk].removed_on = clock], pk, FALSE)
        ELSE 0

\* post_save of LessonProgress; lp is the table with the saved row
mark_enrollment_completed_on_lessons_completed(lp, instance) ==
    LET student == instance.student
        course == lesson_course(instance.lesson)
        pk == get_enrollment(enrollments, student, course)
        final_grade == get_final_grade(submissions, student, course)
        graded == IF truthy(final_grade)
                  THEN [enrollments EXCEPT ![pk].status = COMPLETED,
                                           ![pk].completed_on = clock,
                                           ![pk].final_grade = final_grade]
                  ELSE [enrollments EXCEPT ![pk].status = COMPLETED,
                                           ![pk].completed_on = clock]
        notes == IF truthy(final_grade)
                 THEN create_notification(notifications, student, course,
                                          "final_grade")
                 ELSE notifications
    IN  IF ~instance.completed
           \/ get_user_progress(lp, submissions, course, student) # FullProgress
        THEN Outcome(enrollments, notifications, NoError)
        ELSE IF pk = NoPk
        THEN Outcome(enrollments, notifications, AttributeError)
        ELSE enrollment_notification(graded, pk, FALSE, notes)

\* mutant of assignment_submission_notifications: the completion of the
\* enrollment and its final grade are left out
assignment_submission_notifications_graded_only(subs, instance, created) ==
    LET student == instance.student
        course == assignment_course(instance.assignment)
    IN  IF created
        THEN Outcome(enrollments,
                     create_notification(notifications, taught_by(course),
                                         course, "submitted"),
                     NoError)
        ELSE IF ~truthy(instance.grade)
        THEN Outcome(enrollments, notifications, NoError)
        ELSE Outcome(enrollments,
                     create_notification(notifications, student, course,
                                         "graded"),
                     NoError)

\* post_save of AssignmentSubmission; subs is the table with the saved row
assignment_submission_notifications(subs, instance, created) ==
    LET student == instance.student
        course == assignment_course(instance.assignment)
        teacher == taught_by(course)
        pk == get_enrollment(enrollments, student, course)
        final_grade == get_final_grade(subs, student, course)
        graded_note == create_notification(notifications, student, course,
                                           "graded")
    IN  IF created
        THEN Outcome(enrollments,
                     create_notification(notifications, teacher, course,
                                         "submitted"),
                     NoError)
        ELSE IF ~truthy(instance.grade)
        THEN Outcome(enrollments, notifications, NoError)
        ELSE IF get_user_progress(lesson_progress, subs, course, student)
                # FullProgress
        THEN Outcome(enrollments, graded_note, NoError)
        ELSE IF pk = NoPk
        THEN Outcome(enrollments, graded_note, AttributeError)
        ELSE IF ~truthy(final_grade)
        THEN Outcome(enrollments, graded_note, NoError)
        ELSE enrollment_notification(
                 [enrollments EXCEPT ![pk].status = COMPLETED,
                                     ![pk].completed_on = clock,
                                     ![pk].final_grade = final_grade],
                 pk, FALSE,
                 create_notification(graded_note, student, course,
                                     "final_grade"))

\* User.get_courses of a teacher
get_courses(user) == {c \in Courses : taught_by(c) = user}

\* post_save of UserBlock: QuerySet.update writes the rows without save()
remove_enrollments_on_block(teacher, student) ==
    [e \in DOMAIN enrollments |->
        IF enrollments[e].course \in get_courses(teacher)
           /\ enrollments[e].student = student
        THEN [enrollments[e] EXCEPT !.status = REMOVED, !.completed_on = clock]
        ELSE enrollments[e]]

\* mutant of enrolled_users: the Canceled enrollments are not excluded
enrolled_users_all(course) ==
    {e \in DOMAIN enrollments : enrollments[e].course = course}

\* course.enrollments.exclude(status=CANCELED)
enrolled_users(course) ==
    {e \in DOMAIN enrollments : /\ enrollments[e].course = course
                                /\ enrollments[e].status # CANCELED}

\* one notification with the given content for the student of each of the
\* enrollments pks
RECURSIVE notify_students(_, _, _, _)
notify_students(notes, pks, course, content) ==
    IF pks = {} THEN notes
    ELSE LET e == CHOOSE x \in pks : TRUE
         IN  notify_students(
                 create_notification(notes, enrollments[e].student, course,
                                     content),
                 pks \ {e}, course, content)

\* post_save of Module: the notifications table afterwards
module_create_notification(course, created) ==
    IF created /\ is_published(course)
    THEN notify_students(notifications, enrolled_users(course), course,
                         "new_module")
    ELSE notifications

\* post_save of Lesson: the notifications table afterwards
lesson_created_notification(course, created) ==
    IF created /\ is_published(course)
    THEN notify_students(notifications, enrolled_users(course), course,
                         "new_lesson")
    ELSE notifications

(***************************************************************************)
(* Requests.                                                               *)
(***************************************************************************)
NotificationsFit(notes) == BagCardinality(notes) <= MaxNotifications

\* views.module_create: a module is added to a course, and the post_save
\* handler notifies the students of the course
module_create(m) ==
    /\ m \notin modules
    /\ NotificationsFit(module_create_notification(module_course(m), TRUE))
    /\ modules' = modules \cup {m}
    /\ notifications' = module_create_notification(module_course(m), TRUE)
    /\ error' = NoError
    /\ UNCHANGED <<assignments, lessons, lesson_progress, submissions,
                   enrollments, user_blocks, clock, in_flight, course_reviews>>

\* views.module_edit: an existing module is saved again
module_edit(m) ==
    /\ m \in modules
    /\ notifications' = module_create_notification(module_course(m), FALSE)
    /\ error' = NoError
    /\ UNCHANGED <<assignments, lessons, lesson_progress, submissions,
                   enrollments, user_blocks, clock, modules,
                   in_flight, course_reviews>>

\* views.lesson_create: a lesson is added to a module, and the post_save
\* handler notifies the students of the course
lesson_create(m) ==
    /\ m \in modules
    /\ NotificationsFit(lesson_created_notification(module_course(m), TRUE))
    /\ lessons' = Append(lessons, [module |-> m])
    /\ notifications' = lesson_created_notification(module_course(m), TRUE)
    /\ error' = NoError
    /\ UNCHANGED <<assignments, lesson_progress, submissions, enrollments,
                   user_blocks, clock, modules, in_flight, course_reviews>>

\* views.lesson_edit: an existing lesson is saved again
lesson_edit(pk) ==
    /\ pk \in DOMAIN lessons
    /\ notifications' = lesson_created_notification(lesson_course(pk), FALSE)
    /\ error' = NoError
    /\ UNCHANGED <<assignments, lessons, lesson_progress, submissions,
                   enrollments, user_blocks, clock, modules,
                   in_flight, course_reviews>>

\* mutant of enrollment_create: a reactivation starts the enrollment afresh
enrollment_create_afresh(user, course) ==
    LET existing_enrollment == get_enrollment(enrollments, user, course)
        new == [student |-> user, course |-> course, status |-> ACTIVE,
                activated_on |-> clock, completed_on |-> NULL,
                canceled_on |-> NULL, removed_on |-> NULL,
                final_grade |-> NULL]
        out == IF role(user) # STUDENT
               THEN Outcome(enrollments, notifications, ValidationError(NULL))
               ELSE IF existing_enrollment = NoPk
               THEN enrollment_notification(Append(enrollments, new),
                                            Len(enrollments) + 1, TRUE,
                                            notifications)
               ELSE IF enrollments[existing_enrollment].status = CANCELED
               THEN Outcome([enrollments EXCEPT ![existing_enrollment] = new],
                            notifications, NoError)
               ELSE IF enrollments[existing_enrollment].status = COMPLETED
               THEN Outcome(enrollments, notifications, ValidationError(NULL))
               ELSE Outcome(enrollments, notifications, NoError)
    IN  /\ NotificationsFit(out.notes)
        /\ enrollments' = out.enr
        /\ notifications' = out.notes
        /\ error' = out.err
        /\ UNCHANGED <<assignments, lessons, lesson_progress, submissions,
                       user_blocks, clock, modules, in_flight, course_reviews>>

\* api.EnrollmentListCreateView.create
enrollment_create(user, course) ==
    LET existing_enrollment == get_enrollment(enrollments, user, course)
        new == [student |-> user, course |-> course, status |-> ACTIVE,
                activated_on |-> clock, completed_on |-> NULL,
                canceled_on |-> NULL, removed_on |-> NULL,
                final_grade |-> NULL]
        out == IF role(user) # STUDENT
               THEN Outcome(enrollments, notifications, ValidationError(NULL))
               ELSE IF existing_enrollment = NoPk
               THEN enrollment_notification(Append(enrollments, new),
                                            Len(enrollments) + 1, TRUE,
                                            notifications)
               ELSE IF enrollments[existing_enrollment].status = CANCELED
               THEN enrollment_notification(
                        [enrollments EXCEPT ![existing_enrollment].status = ACTIVE],
                        existing_enrollment, FALSE, notifications)
               ELSE IF enrollments[existing_enrollment].status = COMPLETED
               THEN Outcome(enrollments, notifications, ValidationError(NULL))
               ELSE Outcome(enrollments, notifications, NoError)
    IN  /\ NotificationsFit(out.notes)
        /\ enrollments' = out.enr
        /\ notifications' = out.notes
        /\ error' = out.err
        /\ UNCHANGED <<assignments, lessons, lesson_progress, submissions,
                       user_blocks, clock, modules, in_flight, course_reviews>>

\* api.EnrollmentDetailView.update by the student or the teacher: the
\* status of the enrollment is set and the row saved
enrollment_update(pk, status) ==
    /\ pk \in DOMAIN enrollments
    /\ LET out == enrollment_notification(
                      [enrollments EXCEPT ![pk].status = status],
                      pk, FALSE, notifications)
       IN  /\ enrollments' = out.enr
           /\ notifications' = out.notes
           /\ error' = out.err
    /\ UNCHANGED <<assignments, lessons, lesson_progress, submissions,
                   user_blocks, clock, modules, in_flight, course_reviews>>

\* api.LessonProgressDetailView.put: update_or_create saves the row and runs
\* the post_save handler inside one transaction.atomic()
lesson_progress_put(student, lesson, completed) ==
    /\ lesson \in DOMAIN lessons
    /\ LET found == {p \in DOMAIN lesson_progress :
                        /\ lesson_progress[p].student = student
                        /\ lesson_progress[p].lesson = lesson}
           instance == [student |-> student, lesson |-> lesson,
                        completed |-> completed]
           lp == IF found = {}
                 THEN Append(lesson_progress, instance)
                 ELSE [p \in DOMAIN lesson_progress |->
                          IF p \in found THEN instance ELSE lesson_progress[p]]
           out == mark_enrollment_completed_on_lessons_completed(lp, instance)
       IN  /\ NotificationsFit(out.notes)
           /\ error' = out.err
           /\ lesson_progress' = IF out.err = NoError THEN lp ELSE lesson_progress
           /\ enrollments' = out.enr
           /\ notifications' = out.notes
    /\ UNCHANGED <<assignments, lessons, submissions, user_blocks, clock, modules,
                   in_flight, course_reviews>>

\* views.assignment_submit: every POST of an enrolled user stores a new
\* submission
assignment_submit(user, assignment) ==
    /\ assignment \in DOMAIN assignments
    /\ Len(submissions) < MaxSubmissions
    /\ LET enrollment == get_enrollment(enrollments, user,
                                        assignment_course(assignment))
           instance == [assignment |-> assignment, student |-> user,
                        grade |-> NULL]
           subs == Append(submissions, instance)
           out == assignment_submission_notifications(subs, instance, TRUE)
       IN  IF enrollment = NoPk
           THEN /\ error' = PermissionDenied
                /\ UNCHANGED <<submissions, enrollments, notifications>>
           ELSE /\ NotificationsFit(out.notes)
                /\ submissions' = subs
                /\ enrollments' = out.enr
                /\ notifications' = out.notes
                /\ error' = out.err
    /\ UNCHANGED <<assignments, lessons, lesson_progress, user_blocks, clock, modules,
                   in_flight, course_reviews>>

\* api.AssignmentSubmissionGradeView.post / views.assignment_grade by the
\* teacher of the course
assignment_grade(pk, grade) ==
    /\ pk \in DOMAIN submissions
    /\ LET instance == [submissions[pk] EXCEPT !.grade = grade]
           subs == [submissions EXCEPT ![pk] = instance]
           out == assignment_submission_notifications(subs, instance, FALSE)
       IN  /\ NotificationsFit(out.notes)
           /\ submissions' = subs
           /\ enrollments' = out.enr
           /\ notifications' = out.notes
           /\ error' = out.err
    /\ UNCHANGED <<assignments, lessons, lesson_progress, user_blocks, clock, modules,
                   in_flight, course_reviews>>

\* api.UserBlockView.post: get_or_create, then the post_save handler when the
\* row is new
user_block(blocked_by, blocked_user) ==
    /\ <<blocked_by, blocked_user>> \notin user_blocks
    /\ user_blocks' = user_blocks \cup {<<blocked_by, blocked_user>>}
    /\ enrollments' = remove_enrollments_on_block(blocked_by, blocked_user)
    /\ error' = NoError
    /\ UNCHANGED <<assignments, lessons, lesson_progress, submissions,
                   notifications, clock, modules, in_flight, course_reviews>>

\* api.AssignmentSubmissionGradeView.post / views.assignment_grade with the
\* user who makes the request: only the teacher of the course may grade
assignment_grade_by(user, pk, grade) ==
    /\ pk \in DOMAIN submissions
    /\ IF user # taught_by(assignment_course(submissions[pk].assignment))
       THEN /\ error' = PermissionDenied
            /\ UNCHANGED <<assignments, lessons, lesson_progress, submissions,
                           enrollments, notifications, user_blocks, clock,
                           modules, in_flight, course_reviews>>
       ELSE assignment_grade(pk, grade)

\* api.AssignmentSubmissionDetailView PUT / PATCH: only the submitter passes
\* dispatch; the serializer then writes the fields of the request, grade
\* among them, and saves
submission_update(user, pk, grade) ==
    /\ pk \in DOMAIN submissions
    /\ IF user # submissions[pk].student
       THEN /\ error' = PermissionDenied
            /\ UNCHANGED <<assignments, lessons, lesson_progress, submissions,
                           enrollments, notifications, user_blocks, clock,
                           modules, in_flight, course_reviews>>
       ELSE assignment_grade(pk, grade)

\* get_object_or_404(User, pk=5): the user the API stores every submission
\* for
api_submission_student == "s2"

\* api.AssignmentSubmissionListCreateView.perform_create: the submission is
\* saved for the user with pk 5, enrolled or not
submission_create_api(assignment) ==
    /\ assignment \in DOMAIN assignments
    /\ Len(submissions) < MaxSubmissions
    /\ LET instance == [assignment |-> assignment,
                        student |-> api_submission_student, grade |-> NULL]
           subs == Append(submissions, instance)
           out == assignment_submission_notifications(subs, instance, TRUE)
       IN  /\ NotificationsFit(out.notes)
           /\ submissions' = subs
           /\ enrollments' = out.enr
           /\ notifications' = out.notes
           /\ error' = out.err
    /\ UNCHANGED <<assignments, lessons, lesson_progress, user_blocks, clock,
                   modules, in_flight, course_reviews>>

\* forms.CourseReviewForm.clean without the test of an existing review
CourseReviewForm_clean_any_number(student, course, pk) ==
    IF role(student) # STUDENT
    THEN ValidationError(NULL)
    ELSE IF ~ \E e \in DOMAIN enrollments :
                /\ enrollments[e].student = student
                /\ enrollments[e].course = course
                /\ enrollments[e].status = COMPLETED
         THEN ValidationError(NULL)
         ELSE NoError

\* forms.CourseReviewForm.clean for the instance the view has filled in: the
\* author is a student, has a Completed enrollment in the course, and has
\* no review of the course unless the instance is a saved one
CourseReviewForm_clean(student, course, pk) ==
    LET enrollment == {e \in DOMAIN enrollments :
                          /\ enrollments[e].student = student
                          /\ enrollments[e].course = course
                          /\ enrollments[e].status = COMPLETED}
        already_reviewed == \E r \in DOMAIN course_reviews :
                                /\ course_reviews[r].student = student
                                /\ course_reviews[r].course = course
    IN  IF role(student) # STUDENT
        THEN ValidationError(NULL)
        ELSE IF enrollment = {}
             THEN ValidationError(NULL)
             ELSE IF already_reviewed /\ pk = NoPk
                  THEN ValidationError(NULL)
                  ELSE NoError

\* views.course_review (POST): the form of a new review is validated and,
\* when valid, the review is saved
course_review(user, course) ==
    /\ Len(course_reviews) < MaxReviews
    /\ LET err == CourseReviewForm_clean(user, course, NoPk)
       IN  /\ error' = err
           /\ course_reviews' =
                  IF err = NoError
                  THEN Append(course_reviews,
                              [student |-> user, course |-> course])
                  ELSE course_reviews
    /\ UNCHANGED <<assignments, lessons, lesson_progress, submissions,
                   enrollments, notifications, user_blocks, clock, modules,
                   in_flight>>

\* Assignment.save of one request up to the end of self.clean(): the sum is
\* computed from the rows committed at that moment (pk is NoPk for a new
\* assignment); a request that passes holds the row it is about to write
assignment_save_clean(id, pk, m, w) ==
    /\ \A r \in in_flight : r.id # id
    /\ m \in modules
    /\ pk # NoPk => pk \in DOMAIN assignments /\ assignments[pk].module = m
    /\ LET e == Assignment_clean(pk, m, w)
       IN  /\ error' = e
           /\ in_flight' = IF e = NoError
                           THEN in_flight \cup
                                    {[kind |-> "assignment", id |-> id,
                                      pk |-> pk, module |-> m, weight |-> w]}
                           ELSE in_flight
    /\ UNCHANGED <<assignments, lessons, lesson_progress, submissions,
                   enrollments, notifications, user_blocks, clock, modules,
                   course_reviews>>

\* Assignment.save from super().save() on: the row is inserted or updated
assignment_save_write(r) ==
    /\ r \in in_flight
    /\ in_flight' = in_flight \ {r}
    /\ assignments' =
          IF r.pk = NoPk
          THEN Append(assignments, [module |-> r.module, weight |-> r.weight,
                                    deadline |-> NULL])
          ELSE [assignments EXCEPT ![r.pk].weight = r.weight]
    /\ error' = NoError
    /\ UNCHANGED <<lessons, lesson_progress, submissions, enrollments,
                   notifications, user_blocks, clock, modules, course_reviews>>

\* AssignmentSubmissionGradeView.post of one request up to the read of the
\* enrollment in assignment_submission_notifications: the grade is saved,
\* the 'graded' notification created, the progress found to be 100% and the
\* enrollment row fetched; the request holds the row it has read
grading_save(id, pk, grade) ==
    /\ \A r \in in_flight : r.id # id
    /\ pk \in DOMAIN submissions
    /\ LET instance == [submissions[pk] EXCEPT !.grade = grade]
           subs == [submissions EXCEPT ![pk] = instance]
           student == instance.student
           course == assignment_course(instance.assignment)
           enrollment == get_enrollment(enrollments, student, course)
           graded_note == create_notification(notifications, student, course,
                                              "graded")
       IN  /\ submissions' = subs
           /\ IF ~truthy(grade)
              THEN /\ error' = NoError
                   /\ UNCHANGED <<notifications, in_flight>>
              ELSE /\ NotificationsFit(graded_note)
                   /\ notifications' = graded_note
                   /\ IF get_user_progress(lesson_progress, subs, course,
                                           student) # FullProgress
                      THEN error' = NoError /\ UNCHANGED in_flight
                      ELSE IF enrollment = NoPk
                      THEN error' = AttributeError /\ UNCHANGED in_flight
                      ELSE /\ error' = NoError
                           /\ in_flight' = in_flight \cup
                                  {[kind |-> "grading", id |-> id,
                                    student |-> student, course |-> course,
                                    enrollment |-> enrollment,
                                    status |-> enrollments[enrollment].status]}
    /\ UNCHANGED <<assignments, lessons, lesson_progress, enrollments,
                   user_blocks, clock, modules, course_reviews>>

\* assignment_submission_notifications from `enrollment.status = COMPLETED`
\* on: the final grade is computed and, when it is truthy, the notification
\* is created and status, completed_on and final_grade of the row are saved
grading_complete(r) ==
    /\ r \in in_flight
    /\ in_flight' = in_flight \ {r}
    /\ LET final_grade == get_final_grade(submissions, r.student, r.course)
           out == IF ~truthy(final_grade)
                  THEN Outcome(enrollments, notifications, NoError)
                  ELSE enrollment_notification(
                           [enrollments EXCEPT
                               ![r.enrollment].status = COMPLETED,
                               ![r.enrollment].completed_on = clock,
                               ![r.enrollment].final_grade = final_grade],
                           r.enrollment, FALSE,
                           create_notification(notifications, r.student,
                                               r.course, "final_grade"))
       IN  /\ NotificationsFit(out.notes)
           /\ enrollments' = out.enr
           /\ notifications' = out.notes
           /\ error' = out.err
    /\ UNCHANGED <<assignments, lessons, lesson_progress, submissions,
                   user_blocks, clock, modules, course_reviews>>

\* views.assignment_edit changing the deadline of an assignment; save() runs
\* clean() with the weight the row already has
assignment_set_deadline(pk, deadline) ==
    /\ pk \in DOMAIN assignments
    /\ LET e == Assignment_clean(pk, assignments[pk].module,
                                 assignments[pk].weight)
       IN  /\ error' = e
           /\ assignments' = IF e = NoError
                             THEN [assignments EXCEPT ![pk].deadline = deadline]
                             ELSE assignments
    /\ UNCHANGED <<lessons, lesson_progress, submissions, enrollments,
                   notifications, user_blocks, clock, modules,
                   in_flight, course_reviews>>

(***************************************************************************)
(* tasks.py: the daily sweep of the assignment deadlines.  Dates are days; *)
(* the clock counts days.                                                  *)
(***************************************************************************)
Week == 7

\* the title of an assignment in the content of a notification
deadline_content(a) == <<"deadline_1", "deadline_2", "deadline_3">>[a]

\* Assignment.objects.filter(deadline__date=week_from_now.date())
assignments_due(now) ==
    {a \in DOMAIN assignments : assignments[a].deadline = now + Week}

\* course.enrollments.filter(status=ACTIVE)
active_enrollments(course) ==
    {e \in DOMAIN enrollments : /\ enrollments[e].course = course
                                /\ enrollments[e].status = ACTIVE}

\* assignment.assignment_submissions.values_list("student_id", flat=True)
users_who_submitted_ids(a) ==
    {submissions[x].student :
        x \in {y \in DOMAIN submissions : submissions[y].assignment = a}}

\* `enrollment.student in users_who_submitted_ids`: a User instance is looked
\* up in a set of integer ids.  Model.__eq__ returns NotImplemented for a
\* value that is not a Model, and so does int.__eq__ for a User, so that no
\* element of the set is equal to the instance.
student_in_ids(student, ids) == FALSE

\* the notifications of the sweep for the assignments pks
RECURSIVE notify_deadlines(_, _)
notify_deadlines(notes, pks) ==
    IF pks = {} THEN notes
    ELSE LET a == CHOOSE x \in pks : TRUE
             course == assignment_course(a)
             to_notify ==
                 {e \in active_enrollments(course) :
                     ~student_in_ids(enrollments[e].student,
                                     users_who_submitted_ids(a))}
         IN  notify_deadlines(
                 notify_students(notes, to_notify, course, deadline_content(a)),
                 pks \ {a})

notify_upcoming_assignment_deadlines ==
    /\ NotificationsFit(notify_deadlines(notifications, assignments_due(clock)))
    /\ notifications' = notify_deadlines(notifications, assignments_due(clock))
    /\ UNCHANGED <<assignments, lessons, lesson_progress, submissions,
                   enrollments, user_blocks, clock, error, modules,
                   in_flight, course_reviews>>

(***************************************************************************)
(* api.EnrollmentListCreateView.create as the two steps other requests can *)
(* run between: the read of the existing enrollment, and the write.        *)
(***************************************************************************)
NoStatus == "None"

\* up to user.get_enrollment(course): the request holds the row it has read
enrollment_read(id, user, course) ==
    LET existing_enrollment == get_enrollment(enrollments, user, course)
    IN  /\ \A r \in in_flight : r.id # id
        /\ IF role(user) # STUDENT
           THEN /\ error' = ValidationError(NULL)
                /\ UNCHANGED in_flight
           ELSE /\ error' = error
                /\ in_flight' = in_flight \cup
                       {[kind |-> "enroll", id |-> id, user |-> user,
                         course |-> course,
                         existing |-> existing_enrollment,
                         status |-> IF existing_enrollment = NoPk THEN NoStatus
                                    ELSE enrollments[existing_enrollment].status]}
        /\ UNCHANGED <<assignments, lessons, lesson_progress, submissions,
                       enrollments, notifications, user_blocks, clock, modules, course_reviews>>

\* from `if existing_enrollment:` on, with the row as it was read
enrollment_write(r) ==
    LET new == [student |-> r.user, course |-> r.course, status |-> ACTIVE,
                activated_on |-> clock, completed_on |-> NULL,
                canceled_on |-> NULL, removed_on |-> NULL,
                final_grade |-> NULL]
        out == IF r.existing = NoPk
               THEN enrollment_notification(Append(enrollments, new),
                                            Len(enrollments) + 1, TRUE,
                                            notifications)
               ELSE IF r.status = CANCELED
               THEN Outcome([enrollments EXCEPT ![r.existing].status = ACTIVE],
                            notifications, NoError)
               ELSE IF r.status = COMPLETED
               THEN Outcome(enrollments, notifications, ValidationError(NULL))
               ELSE Outcome(enrollments, notifications, NoError)
    IN  /\ r \in in_flight
        /\ NotificationsFit(out.notes)
        /\ in_flight' = in_flight \ {r}
        /\ enrollments' = out.enr
        /\ notifications' = out.notes
        /\ error' = out.err
        /\ UNCHANGED <<assignments, lessons, lesson_progress, submissions,
                       user_blocks, clock, modules, course_reviews>>

\* time passes between two requests
tick ==
    /\ clock < MaxClock
    /\ clock' = clock + 1
    /\ UNCHANGED <<assignments, lessons, lesson_progress, submissions,
                   enrollments, notifications, user_blocks, error, modules,
                   in_flight, course_reviews>>

Init ==
    /\ assignments = <<>>
    /\ lessons = <<>>
    /\ lesson_progress = <<>>
    /\ submissions = <<>>
    /\ enrollments = <<>>
    /\ notifications = EmptyBag
    /\ user_blocks = {}
    /\ clock = 0
    /\ error = NoError
    /\ modules = Modules
    /\ in_flight = {}
    /\ course_reviews = <<>>

AssignmentCreate ==
    /\ Len(assignments) < MaxAssignments
    /\ \E m \in Modules, w \in WeightChoices : assignment_create(m, w)
AssignmentEdit ==
    \E pk \in 1..MaxAssignments, w \in WeightChoices : assignment_edit(pk, w)

NextWeights == AssignmentCreate \/ AssignmentEdit

SpecWeights == Init /\ [][NextWeights]_vars

(***************************************************************************)
(* The lifecycle of one student's enrollment in the course c1: the teacher *)
(* adds lessons and assignments, the student enrolls, cancels, completes   *)
(* lessons and submits, the teacher grades and may block the student.      *)
(***************************************************************************)
TheStudents == {"s1"}
TheCourses == {"c1"}
TheModules == {"m1"}
TheWeights == {50, 100}

LessonCreate ==
    /\ Len(lessons) < MaxLessons
    /\ \E m \in TheModules : lesson_create(m)

CourseAssignmentCreate ==
    /\ Len(assignments) < MaxCourseAssignments
    /\ \E m \in TheModules, w \in TheWeights : assignment_create(m, w)

EnrollmentCreate ==
    \E s \in TheStudents, c \in TheCourses : enrollment_create(s, c)

EnrollmentCancel == \E pk \in DOMAIN enrollments : enrollment_update(pk, CANCELED)

\* the student marks a lesson completed (un-marking is part of the progress
\* specification below)
LessonProgressPut ==
    \E s \in TheStudents, l \in DOMAIN lessons : lesson_progress_put(s, l, TRUE)

AssignmentSubmit ==
    \E s \in TheStudents, a \in DOMAIN assignments : assignment_submit(s, a)

AssignmentGrade ==
    \E pk \in DOMAIN submissions, g \in GradeChoices : assignment_grade(pk, g)

UserBlock ==
    \E c \in TheCourses, s \in TheStudents : user_block(taught_by(c), s)

Tick == tick

Next ==
    \/ LessonCreate
    \/ CourseAssignmentCreate
    \/ EnrollmentCreate
    \/ EnrollmentCancel
    \/ LessonProgressPut
    \/ AssignmentSubmit
    \/ AssignmentGrade
    \/ UserBlock
    \/ Tick

Spec == Init /\ [][Next]_vars

(***************************************************************************)
(* Blocking: two students enroll in the courses of two teachers, cancel or *)
(* finish, and the teachers block them.                                    *)
(***************************************************************************)
BlockStatusChoices == {CANCELED, COMPLETED}

BlockEnrollmentCreate ==
    /\ Len(enrollments) < MaxEnrollments
    /\ \E u \in Users, c \in Courses : enrollment_create(u, c)

BlockEnrollmentUpdate ==
    \E pk \in DOMAIN enrollments, status \in BlockStatusChoices :
        enrollment_update(pk, status)

BlockUser == \E t \in Teachers, s \in Students : user_block(t, s)

NextBlock ==
    \/ BlockEnrollmentCreate
    \/ BlockEnrollmentUpdate
    \/ BlockUser
    \/ Tick

SpecBlock == Init /\ [][NextBlock]_vars

(***************************************************************************)
(* Progress: one student works through the lessons and assignments of two  *)
(* courses while the teachers keep adding content.                         *)
(***************************************************************************)
ProgressStudents == {"s1"}
ProgressModules == {"m1", "m3"}
ProgressWeights == {50}

ProgressLessonCreate ==
    /\ Len(lessons) < MaxLessons
    /\ \E m \in ProgressModules : lesson_create(m)

ProgressAssignmentCreate ==
    /\ Len(assignments) < MaxCourseAssignments
    /\ \E m \in ProgressModules, w \in ProgressWeights : assignment_create(m, w)

ProgressEnrollmentCreate ==
    /\ Len(enrollments) < MaxEnrollments
    /\ \E s \in ProgressStudents, c \in Courses : enrollment_create(s, c)

ProgressLessonProgressPut ==
    \E s \in ProgressStudents, l \in DOMAIN lessons, completed \in BOOLEAN :
        lesson_progress_put(s, l, completed)

ProgressAssignmentSubmit ==
    \E s \in ProgressStudents, a \in DOMAIN assignments : assignment_submit(s, a)

NextProgress ==
    \/ ProgressLessonCreate
    \/ ProgressAssignmentCreate
    \/ ProgressEnrollmentCreate
    \/ ProgressLessonProgressPut
    \/ ProgressAssignmentSubmit

SpecProgress == Init /\ [][NextProgress]_vars

(***************************************************************************)
(* Grading: the lifecycle of one student's enrollment in the course c1     *)
(* without blocks, while the teacher may change the weight of an           *)
(* assignment.                                                             *)
(***************************************************************************)
CourseAssignmentEdit ==
    \E pk \in DOMAIN assignments, w \in TheWeights : assignment_edit(pk, w)

NextGrading ==
    \/ LessonCreate
    \/ CourseAssignmentCreate
    \/ CourseAssignmentEdit
    \/ EnrollmentCreate
    \/ EnrollmentCancel
    \/ LessonProgressPut
    \/ AssignmentSubmit
    \/ AssignmentGrade

SpecGrading == Init /\ [][NextGrading]_vars

(***************************************************************************)
(* Deadlines: two students enroll in the course c1, cancel and submit; the *)
(* teacher sets deadlines and the sweep runs once a day.                   *)
(***************************************************************************)
DeadlineChoices == {Week, Week + 1}

DeadlineAssignmentCreate ==
    /\ Len(assignments) < MaxCourseAssignments
    /\ \E m \in TheModules, w \in ProgressWeights : assignment_create(m, w)

DeadlineSet ==
    \E pk \in DOMAIN assignments, d \in DeadlineChoices :
        assignment_set_deadline(pk, d)

DeadlineEnrollmentCreate ==
    \E s \in Students, c \in TheCourses : enrollment_create(s, c)

DeadlineAssignmentSubmit ==
    \E s \in Students, a \in DOMAIN assignments : assignment_submit(s, a)

DeadlineSweep == notify_upcoming_assignment_deadlines

NextDeadline ==
    \/ DeadlineAssignmentCreate
    \/ DeadlineSet
    \/ DeadlineEnrollmentCreate
    \/ EnrollmentCancel
    \/ DeadlineAssignmentSubmit
    \/ DeadlineSweep
    \/ Tick

SpecDeadline == Init /\ [][NextDeadline]_vars

(***************************************************************************)
(* Concurrent enroll requests: up to MaxInFlight requests have read the    *)
(* existing enrollment and not yet written.                                *)
(***************************************************************************)
MaxInFlight == 2

EnrollmentRead ==
    /\ Len(enrollments) + Cardinality(in_flight) < MaxEnrollments
    /\ \E id \in 1..MaxInFlight, u \in Users, c \in Courses :
           enrollment_read(id, u, c)

EnrollmentWrite ==
    \E r \in {q \in in_flight : q.kind = "enroll"} : enrollment_write(r)

NextRace ==
    \/ EnrollmentRead
    \/ EnrollmentWrite
    \/ BlockEnrollmentUpdate
    \/ Tick

SpecRace == Init /\ [][NextRace]_vars

(***************************************************************************)
(* Content: the teachers add modules and lessons to a published and an     *)
(* unpublished course while students enroll and cancel.                    *)
(***************************************************************************)
ContentModuleCreate == \E m \in NewModules : module_create(m)

ContentLessonCreate ==
    /\ Len(lessons) < MaxLessons
    /\ \E m \in modules : lesson_create(m)

ContentEnrollmentCreate ==
    /\ Len(enrollments) < MaxEnrollments
    /\ \E s \in Students, c \in Courses : enrollment_create(s, c)

ContentModuleEdit == \E m \in modules : module_edit(m)

ContentLessonEdit == \E pk \in DOMAIN lessons : lesson_edit(pk)

NextContent ==
    \/ ContentModuleCreate
    \/ ContentLessonCreate
    \/ ContentModuleEdit
    \/ ContentLessonEdit
    \/ ContentEnrollmentCreate
    \/ BlockEnrollmentUpdate

SpecContent == Init /\ [][NextContent]_vars

(***************************************************************************)
(* Submissions: the student s1 enrolls and submits through the form, the   *)
(* API stores submissions for its fixed user, and every user tries to      *)
(* grade and to update the submissions.                                    *)
(***************************************************************************)
SubmissionGradeBy ==
    \E u \in Users, pk \in DOMAIN submissions, g \in GradeChoices :
        assignment_grade_by(u, pk, g)

SubmissionUpdate ==
    \E u \in Users, pk \in DOMAIN submissions, g \in GradeChoices :
        submission_update(u, pk, g)

SubmissionCreateApi == \E a \in DOMAIN assignments : submission_create_api(a)

NextSubmission ==
    \/ CourseAssignmentCreate
    \/ EnrollmentCreate
    \/ AssignmentSubmit
    \/ SubmissionCreateApi
    \/ SubmissionUpdate
    \/ SubmissionGradeBy

SpecSubmission == Init /\ [][NextSubmission]_vars

(***************************************************************************)
(* Reviews: users enroll, enrollments are saved as Canceled or Completed,  *)
(* and every user posts the review form of every course.                   *)
(***************************************************************************)
CourseReview == \E u \in Users, c \in Courses : course_review(u, c)

NextReview ==
    \/ BlockEnrollmentCreate
    \/ BlockEnrollmentUpdate
    \/ CourseReview

SpecReview == Init /\ [][NextReview]_vars

(***************************************************************************)
(* Concurrent saves of assignments: up to MaxInFlight requests have run    *)
(* clean() and not yet written their row.                                  *)
(***************************************************************************)
AssignmentSaveClean ==
    /\ Len(assignments) + Cardinality(in_flight) < MaxAssignments
    /\ \E id \in 1..MaxInFlight, m \in Modules, w \in WeightChoices,
          pk \in {NoPk} \cup DOMAIN assignments :
          assignment_save_clean(id, pk, m, w)

AssignmentSaveWrite ==
    \E r \in {q \in in_flight : q.kind = "assignment"} :
        assignment_save_write(r)

NextWeightRace ==
    \/ AssignmentSaveClean
    \/ AssignmentSaveWrite

SpecWeightRace == Init /\ [][NextWeightRace]_vars

(***************************************************************************)
(* Concurrent completion triggers: a grading request has found the         *)
(* progress at 100% and read the enrollment while lesson completions run.  *)
(***************************************************************************)
GradingSave ==
    \E id \in 1..MaxInFlight, pk \in DOMAIN submissions, g \in GradeChoices :
        grading_save(id, pk, g)

GradingComplete ==
    \E r \in {q \in in_flight : q.kind = "grading"} : grading_complete(r)

NextTriggerRace ==
    \/ LessonCreate
    \/ CourseAssignmentCreate
    \/ EnrollmentCreate
    \/ LessonProgressPut
    \/ AssignmentSubmit
    \/ GradingSave
    \/ GradingComplete
    \/ Tick

SpecTriggerRace == Init /\ [][NextTriggerRace]_vars

(***************************************************************************)
(* Properties of the assignment weights.                                   *)
(***************************************************************************)
CourseAssignments(rows, c) ==
    {a \in DOMAIN rows : module_course(rows[a].module) = c}

CourseWeight(rows, c) == SumWeights(rows, CourseAssignments(rows, c))

\* C1: for every course, the weights of all assignments in the course's
\* modules sum to at most 100 after any sequence of accepted or rejected
\* assignment creates and weight updates.
C1_WeightSumAtMost100 == \A c \in Courses : CourseWeight(assignments, c) <= 100

\* a course filled to exactly 100 by assignments of two of its modules, the
\* last request having been rejected
C1_Witness ==
    \E c \in Courses :
        /\ CourseWeight(assignments, c) = 100
        /\ \E a, b \in CourseAssignments(assignments, c) :
               assignments[a].module # assignments[b].module
        /\ error.type = "ValidationError"

\* what C2 says of a save of the assignment pk (NoPk: a new one) of module m
\* with weight w
C2_SaveOutcome(pk, m, w) ==
    LET c == module_course(m)
        others == SumWeights(assignments, CourseAssignments(assignments, c) \ {pk})
        rejected == error'.type = "ValidationError"
    IN  /\ rejected <=> others + w > 100
        /\ rejected => /\ assignments' = assignments
                       /\ error'.max_weight = 100 - others
        /\ ~rejected => CourseWeight(assignments', c) = others + w

Progress(lp, subs, c, s) == get_user_progress(lp, subs, c, s)

\* the student s marks a lesson of the course c completed
LessonCompleted(s, c) ==
    \E l \in get_all_lessons(c) : lesson_progress_put(s, l, TRUE)

\* the student s creates a submission for an assignment of the course c
SubmissionCreated(s, c) ==
    \E a \in get_all_assignments(c) : assignment_submit(s, a)

\* a submission of the student s in the course c is graded
SubmissionGraded(s, c) ==
    \E x \in DOMAIN submissions, g \in GradeChoices :
        /\ submissions[x].student = s
        /\ assignment_course(submissions[x].assignment) = c
        /\ assignment_grade(x, g)

\* C3: when a student's progress in a course is 100% after a lesson is marked
\* completed, a submission is created or a submission is graded, and the
\* enrollment was Active, the enrollment is Completed with completed_on set
\* when the operation has finished.
C3_CompletedWhenProgressFull ==
    [][ \A s \in Students, c \in Courses :
          LET pk == get_enrollment(enrollments, s, c)
          IN  ( /\ pk # NoPk
                /\ enrollments[pk].status = ACTIVE
                /\ \/ LessonCompleted(s, c)
                   \/ SubmissionCreated(s, c)
                   \/ SubmissionGraded(s, c)
                /\ error'.type = "ok"
                /\ Progress(lesson_progress', submissions', c, s) = FullProgress )
              => /\ enrollments'[pk].status = COMPLETED
                 /\ enrollments'[pk].completed_on # NULL
      ]_vars

\* C4: a progress trigger (a lesson marked completed or a submission graded)
\* leaves the status of an enrollment that is Removed, Canceled or Completed
\* as it is.
C4_TerminalStatusKept ==
    [][ \A s \in Students, c \in Courses :
          LET pk == get_enrollment(enrollments, s, c)
          IN  ( /\ pk # NoPk
                /\ enrollments[pk].status \in {REMOVED, CANCELED, COMPLETED}
                /\ LessonCompleted(s, c) \/ SubmissionGraded(s, c) )
              => enrollments'[pk].status = enrollments[pk].status
      ]_vars

FinalGradeNotifications(notes, s, c) ==
    CopiesIn(Notification(s, c, "final_grade"), notes)

\* C5: saving a completed LessonProgress again, when the progress is already
\* 100% and the enrollment already Completed with its final grade, leaves
\* completed_on as it is and creates no further 'final grade updated'
\* notification.
C5_CompletionIdempotent ==
    [][ \A s \in Students, l \in DOMAIN lessons :
          LET c == lesson_course(l)
              pk == get_enrollment(enrollments, s, c)
          IN  ( /\ pk # NoPk
                /\ enrollments[pk].status = COMPLETED
                /\ enrollments[pk].completed_on # NULL
                /\ enrollments[pk].final_grade
                       = get_final_grade(submissions, s, c)
                /\ \E p \in DOMAIN lesson_progress :
                       lesson_progress[p] =
                           [student |-> s, lesson |-> l, completed |-> TRUE]
                /\ Progress(lesson_progress, submissions, c, s) = FullProgress
                /\ lesson_progress_put(s, l, TRUE) )
              => /\ enrollments'[pk].completed_on = enrollments[pk].completed_on
                 /\ FinalGradeNotifications(notifications', s, c)
                        = FinalGradeNotifications(notifications, s, c)
      ]_vars

\* C6: when a teacher blocks a student, every enrollment of the student in a
\* course of the teacher is Removed with removed_on set afterwards, and every
\* other enrollment is unchanged.
C6_BlockRemovesEnrollments ==
    [][ \A t \in Teachers, s \in Students :
          user_block(t, s) =>
              \A e \in DOMAIN enrollments :
                  IF enrollments[e].student = s
                     /\ taught_by(enrollments[e].course) = t
                  THEN /\ enrollments'[e].status = REMOVED
                       /\ enrollments'[e].removed_on # NULL
                  ELSE enrollments'[e] = enrollments[e]
      ]_vars

\* C7: progress(student, course) lies in [0, 100] in every reachable state.
C7_ProgressInRange ==
    \A s \in Students, c \in Courses :
        /\ Progress(lesson_progress, submissions, c, s) >= 0
        /\ Progress(lesson_progress, submissions, c, s) <= FullProgress

\* the lessons of the course the student has completed, and the assignments
\* of the course the student has submitted
LessonsCompletedBy(lp, s, c) ==
    {l \in get_all_lessons(c) :
        \E p \in DOMAIN lp : lp[p] = [student |-> s, lesson |-> l,
                                      completed |-> TRUE]}

AssignmentsSubmittedBy(subs, s, c) ==
    {a \in get_all_assignments(c) :
        \E x \in DOMAIN subs : subs[x].student = s /\ subs[x].assignment = a}

SubmissionsOf(subs, s) == {x \in DOMAIN subs : subs[x].student = s}

\* C8: with the lessons and assignments of the course unchanged, the progress
\* of a student does not decrease in a step in which the student completes
\* more lessons or makes more submissions and loses none.
C8_ProgressMonotonic ==
    [][ \A s \in Students, c \in Courses :
          ( /\ lessons' = lessons
            /\ assignments' = assignments
            /\ LessonsCompletedBy(lesson_progress, s, c)
                   \subseteq LessonsCompletedBy(lesson_progress', s, c)
            /\ SubmissionsOf(submissions, s) \subseteq SubmissionsOf(submissions', s) )
          => Progress(lesson_progress', submissions', c, s)
                 >= Progress(lesson_progress, submissions, c, s)
      ]_vars

\* two of three items done: a completed lesson and a submission, 66.67%
C8_Witness ==
    \E s \in Students, c \in Courses :
        /\ Progress(lesson_progress, submissions, c, s) = 6667
        /\ LessonsCompletedBy(lesson_progress, s, c) # {}
        /\ AssignmentsSubmittedBy(submissions, s, c) # {}

\* C9: progress is 0 for a course without lessons and assignments, and
\* otherwise 100 * (lessons completed + assignments submitted) / (lessons +
\* assignments), to two decimals; an ungraded submission counts and a
\* LessonProgress row with completed = false does not.
C9_ProgressFormula ==
    \A s \in Students, c \in Courses :
        LET total == Cardinality(get_all_lessons(c))
                     + Cardinality(get_all_assignments(c))
            done == Cardinality(LessonsCompletedBy(lesson_progress, s, c))
                    + Cardinality(AssignmentsSubmittedBy(submissions, s, c))
        IN  Progress(lesson_progress, submissions, c, s) =
                IF total = 0 THEN 0 ELSE round_percent(done, total)

\* C10: the final grade is absent unless every assignment of the course has a
\* submission of the student and no submission of the student in the course
\* is ungraded; when both hold it is the sum of (weight / 100) * grade over
\* the student's submissions in the course.
C10_FinalGrade ==
    \A s \in Students, c \in Courses :
        LET mine == {x \in SubmissionsOf(submissions, s) :
                        assignment_course(submissions[x].assignment) = c}
            covered == AssignmentsSubmittedBy(submissions, s, c)
                           = get_all_assignments(c)
            graded == \A x \in mine : submissions[x].grade # NULL
            final_grade == get_final_grade(submissions, s, c)
        IN  /\ final_grade # NULL => covered /\ graded
            /\ covered /\ graded => final_grade = SumGrades(submissions, mine)

(***************************************************************************)
(* Properties of the final grade and of the notifications.                 *)
(***************************************************************************)
\* C11: once the final_grade of an enrollment is non-null, no later lesson
\* completion, submission save or re-grading changes its value.
C11_FinalGradeSetOnce ==
    [][ \A s \in Students, c \in Courses :
          ( \/ LessonCompleted(s, c)
            \/ SubmissionCreated(s, c)
            \/ SubmissionGraded(s, c) )
          => \A e \in DOMAIN enrollments :
                 enrollments[e].final_grade # NULL
                 => enrollments'[e].final_grade = enrollments[e].final_grade
      ]_vars

DeadlineNotifications(notes, s, a) ==
    CopiesIn(Notification(s, assignment_course(a), deadline_content(a)), notes)

\* C12: the deadline sweep creates a 'deadline approaching' notification for
\* an assignment and a student exactly when the deadline date of the
\* assignment is the sweep date plus 7 days, the student has an Active
\* enrollment in the course of the assignment and the student has no
\* submission for the assignment; in every other case it creates none.
C12_DeadlineSweepNotifies ==
    [][ notify_upcoming_assignment_deadlines =>
          \A a \in DOMAIN assignments, s \in Students :
              DeadlineNotifications(notifications', s, a)
                  - DeadlineNotifications(notifications, s, a)
              = IF /\ assignments[a].deadline = clock + Week
                   /\ \E e \in DOMAIN enrollments :
                          /\ enrollments[e].student = s
                          /\ enrollments[e].course = assignment_course(a)
                          /\ enrollments[e].status = ACTIVE
                   /\ ~\E x \in DOMAIN submissions :
                          /\ submissions[x].student = s
                          /\ submissions[x].assignment = a
                THEN 1 ELSE 0
      ]_vars

GradedNotifications(notes, s, c) ==
    CopiesIn(Notification(s, c, "graded"), notes)

\* C13: a 'graded' notification is created for the student exactly once per
\* grading event, when the grade of a submission changes from absent to a
\* value (0 included); saving a graded submission again with the grade it
\* has creates none, and creating a submission creates none.
C13_GradedNotifiedOnce ==
    [][ /\ \A x \in DOMAIN submissions, g \in GradeChoices :
               assignment_grade(x, g) =>
                   LET s == submissions[x].student
                       c == assignment_course(submissions[x].assignment)
                       created == GradedNotifications(notifications', s, c)
                                  - GradedNotifications(notifications, s, c)
                   IN  /\ submissions[x].grade = NULL => created = 1
                       /\ submissions[x].grade = g => created = 0
        /\ \A s \in Students, a \in DOMAIN assignments :
               assignment_submit(s, a) =>
                   GradedNotifications(notifications', s, assignment_course(a))
                       = GradedNotifications(notifications, s,
                                             assignment_course(a))
      ]_vars

\* the number of notifications of a user
NotificationsOf(notes, u) ==
    BagCardinality([n \in {m \in BagToSet(notes) : m.user = u} |-> notes[n]])

\* the scenario of C14 for the submission x: its course has two lessons,
\* both completed by the student, and one assignment of weight 100, of which
\* x is the student's only submission
C14_Scenario(x) ==
    LET s == submissions[x].student
        a == submissions[x].assignment
        c == assignment_course(a)
    IN  /\ Cardinality(get_all_lessons(c)) = 2
        /\ LessonsCompletedBy(lesson_progress, s, c) = get_all_lessons(c)
        /\ get_all_assignments(c) = {a}
        /\ assignments[a].weight = 100
        /\ get_assignments_submitted(submissions, s, c) = {x}

\* C14: in a course with 2 lessons and 1 assignment of weight 100 where the
\* student has completed both lessons and submitted the assignment, grading
\* the submission with 90 sets the final_grade of the enrollment to 90 and
\* creates exactly two notifications for the student, one 'graded' and one
\* 'final grade updated'.
C14_GradingScenario ==
    [][ \A x \in DOMAIN submissions :
          ( C14_Scenario(x) /\ assignment_grade(x, 90) ) =>
              LET s == submissions[x].student
                  c == assignment_course(submissions[x].assignment)
                  pk == get_enrollment(enrollments, s, c)
              IN  /\ pk # NoPk
                  /\ enrollments'[pk].final_grade = 9000
                  /\ NotificationsOf(notifications', s)
                         = NotificationsOf(notifications, s) + 2
                  /\ GradedNotifications(notifications', s, c)
                         = GradedNotifications(notifications, s, c) + 1
                  /\ FinalGradeNotifications(notifications', s, c)
                         = FinalGradeNotifications(notifications, s, c) + 1
      ]_vars

\* the scenario has happened: graded 90, final grade 90, both notifications
C14_Witness ==
    \E x \in DOMAIN submissions :
        LET s == submissions[x].student
            c == assignment_course(submissions[x].assignment)
            pk == get_enrollment(enrollments, s, c)
        IN  /\ C14_Scenario(x)
            /\ submissions[x].grade = 90
            /\ pk # NoPk
            /\ enrollments[pk].final_grade = 9000
            /\ GradedNotifications(notifications, s, c) = 1
            /\ FinalGradeNotifications(notifications, s, c) = 1

(***************************************************************************)
(* Properties of the enroll request.                                       *)
(***************************************************************************)
\* C15: re-enrolling a student whose enrollment in the course is Canceled
\* sets that same record to Active without creating a second record, keeps
\* activated_on at its original value and clears none of completed_on,
\* canceled_on, removed_on and final_grade.
C15_ReactivationInPlace ==
    [][ \A s \in Students, c \in Courses :
          LET pk == get_enrollment(enrollments, s, c)
          IN  ( /\ pk # NoPk
                /\ enrollments[pk].status = CANCELED
                /\ enrollment_create(s, c) )
              => /\ Len(enrollments') = Len(enrollments)
                 /\ enrollments'[pk].status = ACTIVE
                 /\ enrollments'[pk].activated_on = enrollments[pk].activated_on
                 /\ enrollments'[pk].completed_on = enrollments[pk].completed_on
                 /\ enrollments'[pk].canceled_on = enrollments[pk].canceled_on
                 /\ enrollments'[pk].removed_on = enrollments[pk].removed_on
                 /\ enrollments'[pk].final_grade = enrollments[pk].final_grade
                 /\ \A e \in DOMAIN enrollments \ {pk} :
                        enrollments'[e] = enrollments[e]
      ]_vars

\* an enrollment canceled and then reactivated on a later day than the day it
\* was first activated
C15_Witness ==
    \E e \in DOMAIN enrollments :
        /\ enrollments[e].status = ACTIVE
        /\ enrollments[e].canceled_on # NULL
        /\ enrollments[e].activated_on < clock

\* C16: an enroll request is rejected with an error and leaves all
\* enrollments and notifications unchanged when the existing enrollment of
\* the student in the course is Completed or when the user to enroll is not
\* a student.
C16_EnrollRejected ==
    [][ \A u \in Users, c \in Courses :
          LET pk == get_enrollment(enrollments, u, c)
          IN  ( /\ enrollment_create(u, c)
                /\ \/ u \notin Students
                   \/ pk # NoPk /\ enrollments[pk].status = COMPLETED )
              => /\ error'.type = "ValidationError"
                 /\ enrollments' = enrollments
                 /\ notifications' = notifications
      ]_vars

\* a request has been rejected while the only enrollment is a Completed one
C16_Witness ==
    /\ error.type = "ValidationError"
    /\ Len(enrollments) = 1
    /\ enrollments[1].status = COMPLETED
    /\ BagCardinality(notifications) = 1

\* C17: under any interleaving of enroll requests, two requests that both
\* read before either writes included, at most one Enrollment row exists for
\* a student and a course.
C17_OneEnrollmentPerStudentAndCourse ==
    \A s \in Students, c \in Courses :
        Cardinality({e \in DOMAIN enrollments :
                        enrollments[e].student = s /\ enrollments[e].course = c})
            <= 1

\* C18: a new enrollment is created only for a published course, and it
\* starts Active with activated_on set and completed_on, canceled_on,
\* removed_on and final_grade null; an enroll request for an unpublished
\* course creates no enrollment.
C18_EnrollmentOnlyWhenPublished ==
    [][ \A u \in Users, c \in Courses :
          enrollment_create(u, c) =>
              /\ ~is_published(c) => Len(enrollments') = Len(enrollments)
              /\ Len(enrollments') > Len(enrollments) =>
                     /\ is_published(c)
                     /\ enrollments'[Len(enrollments')] =
                            [student |-> u, course |-> c, status |-> ACTIVE,
                             activated_on |-> clock, completed_on |-> NULL,
                             canceled_on |-> NULL, removed_on |-> NULL,
                             final_grade |-> NULL]
      ]_vars

(***************************************************************************)
(* Properties of the notifications about new content and to the teacher.   *)
(***************************************************************************)
\* what C19 says of the creation of a module or lesson in the course c, the
\* notifications of which have the given content
C19_ContentCreated(c, content) ==
    LET notified == {e \in DOMAIN enrollments :
                        /\ enrollments[e].course = c
                        /\ enrollments[e].status # CANCELED}
    IN  /\ \A s \in Students :
               CopiesIn(Notification(s, c, content), notifications')
                   - CopiesIn(Notification(s, c, content), notifications)
               = IF is_published(c)
                 THEN Cardinality({e \in notified : enrollments[e].student = s})
                 ELSE 0
        /\ BagCardinality(notifications') - BagCardinality(notifications)
               = IF is_published(c) THEN Cardinality(notified) ELSE 0

\* C19: creating a module or a lesson in a published course creates exactly
\* one notification for each enrollment of the course that is not Canceled
\* and none for a Canceled one; creating a module or lesson in an
\* unpublished course, or saving an existing module or lesson, creates none.
C19_ContentNotifications ==
    [][ /\ \A m \in NewModules :
               module_create(m) => C19_ContentCreated(module_course(m), "new_module")
        /\ \A m \in Modules \cup NewModules :
               lesson_create(m) => C19_ContentCreated(module_course(m), "new_lesson")
        /\ \A m \in Modules \cup NewModules :
               module_edit(m) => notifications' = notifications
        /\ \A pk \in DOMAIN lessons :
               lesson_edit(pk) => notifications' = notifications
      ]_vars

\* two students enrolled in a published course, one of them Canceled: the
\* other one has been told of a new lesson and of a new module, the Canceled
\* one of nothing
C19_Witness ==
    \E c \in Courses, e, f \in DOMAIN enrollments :
        /\ is_published(c)
        /\ enrollments[e].course = c /\ enrollments[f].course = c
        /\ enrollments[e].status = ACTIVE
        /\ enrollments[f].status = CANCELED
        /\ CopiesIn(Notification(enrollments[e].student, c, "new_lesson"),
                    notifications) = 1
        /\ CopiesIn(Notification(enrollments[e].student, c, "new_module"),
                    notifications) = 1
        /\ NotificationsOf(notifications, enrollments[f].student) = 0

\* the Enrollment and AssignmentSubmission rows a step creates in the
\* courses of the teacher t
NewEnrollments(t) ==
    {e \in DOMAIN enrollments' \ DOMAIN enrollments :
        taught_by(enrollments'[e].course) = t}

NewSubmissions(t) ==
    {x \in DOMAIN submissions' \ DOMAIN submissions :
        taught_by(assignment_course(submissions'[x].assignment)) = t}

TeacherNotifications(notes, t, content) ==
    BagCardinality([n \in {m \in BagToSet(notes) :
                               m.user = t /\ m.content = content}
                       |-> notes[n]])

\* C20: creating an enrollment creates exactly one notification for the
\* teacher of the course, and so does creating a submission; a later save of
\* the same enrollment or submission creates no further notification for
\* the teacher.
C20_TeacherNotifiedOnCreation ==
    [][ \A t \in Teachers :
          /\ TeacherNotifications(notifications', t, "enrolled")
                 - TeacherNotifications(notifications, t, "enrolled")
             = Cardinality(NewEnrollments(t))
          /\ TeacherNotifications(notifications', t, "submitted")
                 - TeacherNotifications(notifications, t, "submitted")
             = Cardinality(NewSubmissions(t))
          /\ NotificationsOf(notifications', t) - NotificationsOf(notifications, t)
             = Cardinality(NewEnrollments(t)) + Cardinality(NewSubmissions(t))
      ]_vars

\* an enrollment canceled, reactivated and completed and a submission graded
\* after their creation, the teacher having one notification of each
C20_Witness ==
    \E e \in DOMAIN enrollments, x \in DOMAIN submissions :
        LET t == taught_by(enrollments[e].course)
        IN  /\ enrollments[e].canceled_on # NULL
            /\ enrollments[e].status = COMPLETED
            /\ submissions[x].grade = 90
            /\ TeacherNotifications(notifications, t, "enrolled") = 1
            /\ TeacherNotifications(notifications, t, "submitted") = 1

(***************************************************************************)
(* Properties of the requests that write a submission.                     *)
(***************************************************************************)
\* C21: the grade of a submission is changed only by the teacher of the
\* course of the submission: no request of the submitting student or of
\* another user who is not that teacher, through any endpoint that updates a
\* submission, changes the stored grade.
C21_GradeWrittenByTeacherOnly ==
    [][ \A u \in Users, pk \in DOMAIN submissions, g \in GradeChoices :
          ( /\ u # taught_by(assignment_course(submissions[pk].assignment))
            /\ assignment_grade_by(u, pk, g) \/ submission_update(u, pk, g) )
          => submissions'[pk].grade = submissions[pk].grade
      ]_vars

(***************************************************************************)
(* Properties of the review form.                                          *)
(***************************************************************************)
ReviewsOf(reviews, u, c) ==
    {r \in DOMAIN reviews : reviews[r].student = u /\ reviews[r].course = c}

HasCompleted(u, c) ==
    \E e \in DOMAIN enrollments :
        /\ enrollments[e].student = u
        /\ enrollments[e].course = c
        /\ enrollments[e].status = COMPLETED

\* C22: the review form accepts a review only from a student who has a
\* Completed enrollment in the course at that moment and no review of the
\* course yet; a rejected post stores nothing; so there is at most one
\* review for each student and course.
C22_ReviewOnlyWhenCompletedAndOnce ==
    [][ /\ \A u \in Users, c \in Courses :
              course_review(u, c) =>
                  IF /\ u \in Students
                     /\ HasCompleted(u, c)
                     /\ ReviewsOf(course_reviews, u, c) = {}
                  THEN /\ error' = NoError
                       /\ Cardinality(ReviewsOf(course_reviews', u, c)) = 1
                  ELSE /\ error'.type = "ValidationError"
                       /\ course_reviews' = course_reviews
        /\ \A u \in Users, c \in Courses :
              Cardinality(ReviewsOf(course_reviews', u, c)) <= 1
      ]_vars

\* a student with a Completed enrollment and a review has posted the form
\* again and was rejected
C22_Witness ==
    /\ error.type = "ValidationError"
    /\ \E u \in Students, c \in Courses :
          /\ HasCompleted(u, c)
          /\ ReviewsOf(course_reviews, u, c) # {}

(***************************************************************************)
(* Properties of concurrent saves of assignments.                          *)
(***************************************************************************)
\* C23: when two saves of assignments of one course run concurrently, each
\* computing the sum of the weights before the other has written, the
\* weights of the course still never add up to more than 100 after a write.
C23_ConcurrentSavesKeepSumAtMost100 ==
    [][ \A r \in in_flight :
          assignment_save_write(r) =>
              \A c \in Courses : CourseWeight(assignments', c) <= 100
      ]_vars

(***************************************************************************)
(* Properties of concurrent completion triggers.                           *)
(***************************************************************************)
\* C24: when a grading has found the progress at 100% with the enrollment
\* not yet Completed, and a lesson completion of the same student and course
\* has completed the enrollment in the meantime, the grading does not
\* perform the transition a second time: completed_on stays as written and
\* no second 'final grade updated' notification is created.
C24_CompletedOnceUnderConcurrency ==
    [][ \A r \in in_flight :
          ( /\ r.kind = "grading"
            /\ r.status # COMPLETED
            /\ enrollments[r.enrollment].status = COMPLETED
            /\ grading_complete(r) )
          => /\ enrollments'[r.enrollment].completed_on
                    = enrollments[r.enrollment].completed_on
             /\ FinalGradeNotifications(notifications', r.student, r.course)
                    = FinalGradeNotifications(notifications, r.student,
                                              r.course)
      ]_vars

(***************************************************************************)
(* Properties of the completion handlers at their edges.                   *)
(***************************************************************************)
\* C25: a final grade of exactly 0 is a value: when the grading of a
\* submission leaves the student's progress at 100% and the final grade
\* computed for the course is 0, the Active enrollment is saved Completed
\* with completed_on set and final_grade 0.
C25_ZeroFinalGradeCompletes ==
    [][ \A x \in DOMAIN submissions, g \in GradeChoices :
          LET s == submissions[x].student
              c == assignment_course(submissions[x].assignment)
              pk == get_enrollment(enrollments, s, c)
          IN  ( /\ pk # NoPk
                /\ enrollments[pk].status = ACTIVE
                /\ assignment_grade(x, g)
                /\ Progress(lesson_progress', submissions', c, s) = FullProgress
                /\ get_final_grade(submissions', s, c) = 0 )
              => /\ enrollments'[pk].status = COMPLETED
                 /\ enrollments'[pk].completed_on # NULL
                 /\ enrollments'[pk].final_grade = 0
      ]_vars

\* C26: a lesson completion or a grading for a student who has no enrollment
\* in the course is a silent no-op for enrollments: whatever the progress,
\* 100% included, no error is raised and no enrollment is created or
\* changed.
C26_NoEnrollmentIsNoOp ==
    [][ \A s \in Students, c \in Courses :
          ( /\ get_enrollment(enrollments, s, c) = NoPk
            /\ LessonCompleted(s, c) \/ SubmissionGraded(s, c) )
          => /\ error'.type = "ok"
             /\ enrollments' = enrollments
      ]_vars

(***************************************************************************)
(* Properties of the timestamps of an enrollment.                          *)
(***************************************************************************)
\* a timestamp of a row, before and after a step, with the status it
\* belongs to: set while the row has the status, set only by a step that
\* leaves the row in the status, and never changed once set
TimestampKept(old, new, status, was_there) ==
    /\ new.status = status => new.timestamp # NULL
    /\ was_there /\ old.timestamp # NULL => new.timestamp = old.timestamp
    /\ ( \/ ~was_there
         \/ old.timestamp = NULL ) /\ new.timestamp # NULL
           => new.status = status

\* C27: completed_on, canceled_on and removed_on of an enrollment are each
\* non-null only if the enrollment has had the matching status, non-null
\* whenever it has that status now, and never changed once non-null;
\* activated_on is set from the creation of the row.
C27_TimestampsFollowStatus ==
    [][ \A e \in DOMAIN enrollments' :
          LET new == enrollments'[e]
              was_there == e \in DOMAIN enrollments
              old == IF was_there THEN enrollments[e] ELSE new
              stamp(row, t) == [status |-> row.status, timestamp |-> t]
          IN  /\ new.activated_on # NULL
              /\ TimestampKept(stamp(old, old.completed_on),
                               stamp(new, new.completed_on),
                               COMPLETED, was_there)
              /\ TimestampKept(stamp(old, old.canceled_on),
                               stamp(new, new.canceled_on),
                               CANCELED, was_there)
              /\ TimestampKept(stamp(old, old.removed_on),
                               stamp(new, new.removed_on),
                               REMOVED, was_there)
      ]_vars

C29_DerivedWritesAllOrNothing ==
    [][ \A u \in Users, pk \in DOMAIN submissions, g \in GradeChoices :
          ( /\ assignment_grade_by(u, pk, g) \/ submission_update(u, pk, g)
            /\ error'.type # "ok" )
          => /\ notifications' = notifications
             /\ enrollments' = enrollments
      ]_vars

(***************************************************************************)
(* Properties of the re-entrant save of the enrollment handler.            *)
(***************************************************************************)
\* the timestamp of a row that belongs to a status
TimestampOf(row, status) ==
    IF status = COMPLETED THEN row.completed_on
    ELSE IF status = CANCELED THEN row.canceled_on
    ELSE IF status = REMOVED THEN row.removed_on
    ELSE row.activated_on

\* C30: the save inside the enrollment handler terminates: saving an
\* existing enrollment with status Completed, Canceled or Removed and the
\* matching timestamp null causes exactly one nested save, whose handler run
\* saves nothing further and leaves the timestamp set; a save with the
\* timestamp already set, or with status Active, causes no nested save.
C30_OneNestedSave ==
    \A pk \in DOMAIN enrollments, status \in EnrollmentStatus :
        LET enr == [enrollments EXCEPT ![pk].status = status]
            out == enrollment_notification(enr, pk, FALSE, notifications)
        IN  /\ enrollment_nested_saves(enr, pk, FALSE) =
                   IF status # ACTIVE /\ TimestampOf(enr[pk], status) = NULL
                   THEN 1 ELSE 0
            /\ enrollment_nested_saves(out.enr, pk, FALSE) = 0
            /\ status # ACTIVE => TimestampOf(out.enr[pk], status) # NULL

\* an enrollment that was saved as Canceled with canceled_on null and had its
\* nested save: saving it again causes none, saving it as Completed one
C30_Witness ==
    \E pk \in DOMAIN enrollments :
        /\ enrollments[pk].status = CANCELED
        /\ enrollments[pk].canceled_on # NULL
        /\ enrollments[pk].completed_on = NULL
        /\ enrollment_nested_saves(enrollments, pk, FALSE) = 0
        /\ enrollment_nested_saves(
               [enrollments EXCEPT ![pk].status = COMPLETED], pk, FALSE) = 1

====
